---- MODULE Spec2Model ----
(***************************************************************************)
(* Model of src/main_x11.c: the X11/Vulkan bootstrap of vkbootstrap.       *)
(*                                                                         *)
(* main() is a sequential program; its position is pc.  The windowing      *)
(* server and the Vulkan driver are the environment: every call into them  *)
(* returns one of the results the call can return, chosen                  *)
(* nondeterministically, and the X server may queue events on the          *)
(* connection at any moment while the window is mapped.  A destroy call    *)
(* made with a null handle reaches the environment (it is logged in        *)
(* destroyCalls) and releases nothing.                                     *)
(***************************************************************************)
EXTENDS Integers, Sequences, FiniteSets, TLC

(* ------------------------------ bounds -------------------------------- *)
\* largest image count a surface reports in the model
MaxImageCount == 3
\* longest present-mode list the driver returns in the model
MaxPresentModes == 2
\* most events buffered on the connection at once
MaxQueue == 2
\* most events the server delivers in one run
MaxArrivals == 3
\* most physical devices the enumeration reports
MaxEnumerated == 1

(* ----------------------------- constants ------------------------------ *)
NULL == "NULL"
VK_NULL_HANDLE == "NULL"
EXIT_SUCCESS == 0
EXIT_FAILURE == 1

VK_SUCCESS == "VK_SUCCESS"
VK_INCOMPLETE == "VK_INCOMPLETE"
VK_ERROR_INITIALIZATION_FAILED == "VK_ERROR_INITIALIZATION_FAILED"
VK_ERROR_SURFACE_LOST_KHR == "VK_ERROR_SURFACE_LOST_KHR"
VK_ERROR_OUT_OF_HOST_MEMORY == "VK_ERROR_OUT_OF_HOST_MEMORY"

VK_PRESENT_MODE_IMMEDIATE_KHR == "VK_PRESENT_MODE_IMMEDIATE_KHR"
VK_PRESENT_MODE_MAILBOX_KHR == "VK_PRESENT_MODE_MAILBOX_KHR"
VK_PRESENT_MODE_FIFO_KHR == "VK_PRESENT_MODE_FIFO_KHR"
\* a mode the selection scan has no case for
VK_PRESENT_MODE_FIFO_RELAXED_KHR == "VK_PRESENT_MODE_FIFO_RELAXED_KHR"
PresentModes ==
    {VK_PRESENT_MODE_IMMEDIATE_KHR, VK_PRESENT_MODE_MAILBOX_KHR, VK_PRESENT_MODE_FIFO_KHR,
     VK_PRESENT_MODE_FIFO_RELAXED_KHR}

\* event codes compared in the switch of window_process_events
XCB_CLIENT_MESSAGE == 33
XCB_CONFIGURE_NOTIFY == 22
\* an event code the switch has no case for (a map notification)
XCB_MAP_NOTIFY == 19
\* bit 7 of response_type, set on events sent by another client
SentEventBit == 128
\* atoms the server interns for window_create
WM_DELETE_WINDOW == 301
\* an atom that is not WM_DELETE_WINDOW
WM_TAKE_FOCUS == 303

VARIABLES
    pc,                  \* position of main
    error,               \* main's exit status
    result,              \* main's VkResult
    connection,          \* xcb_connection_t *
    main_window,         \* game_window_t * (the global)
    window,              \* the game_window_t main_window points to
    vk, physicalDevice, device, queue, surface, swapchain,
    physicalDeviceCount, \* create_device's local
    SurfaceCapabilities, \* create_swapchain's locals
    presentModes,
    SwapchainCreateInfo,
    eventQueue,          \* events buffered on the connection
    arrivals,            \* events the server delivered so far
    handled,             \* events window_process_events has handled, in order
    stderrLines,         \* diagnostic lines written to standard error
    failed,              \* the bootstrap step the environment made fail
    live,                \* resources that exist in the environment
    acquired,            \* resources in the order they were created
    released,            \* resources in the order they were destroyed
    destroyCalls,        \* release calls that reached the environment
    nativeWindow,        \* what the server did with xcb_create_window
    driverResult,        \* the VkResult the driver returned last
    drainLimit           \* events handled plus events queued when the pump was entered

vars == <<pc, error, result, connection, main_window, window, vk, physicalDevice,
          device, queue, surface, swapchain, physicalDeviceCount,
          SurfaceCapabilities, presentModes, SwapchainCreateInfo, eventQueue,
          arrivals, handled, stderrLines, failed, live, acquired, released, destroyCalls,
          nativeWindow, driverResult, drainLimit>>

handles == <<connection, main_window, window, vk, physicalDevice, device, queue,
             surface, swapchain>>
deviceLocals == <<physicalDeviceCount>>
swapchainLocals == <<SurfaceCapabilities, presentModes, SwapchainCreateInfo>>
server == <<eventQueue, arrivals, handled>>
teardownLog == <<released, destroyCalls>>
observed == <<nativeWindow, driverResult, drainLimit>>

(* --------------------------- pure functions --------------------------- *)

\* response_type & ~0x80 on an 8-bit response_type
StripSentBit(response_type) ==
    IF (response_type \div SentEventBit) % 2 = 1
    THEN response_type - SentEventBit
    ELSE response_type

\* HandleEvent with size_changed computed by && instead of ||
HandleEvent_SizeChangedAnd(w, event) ==
    LET type == StripSentBit(event.response_type)
        size_changed == (event.width # w.width) /\ (event.height # w.height)
    IN  CASE type = XCB_CLIENT_MESSAGE ->
                IF event.data32_0 = w.wm_delete_window
                THEN [w EXCEPT !.is_closed = 1]
                ELSE w
          [] type = XCB_CONFIGURE_NOTIFY ->
                IF size_changed
                THEN [w EXCEPT !.width = event.width, !.height = event.height]
                ELSE w
          [] OTHER -> w

\* HandleEvent without the comparison of the token with wm_delete_window
HandleEvent_NoTokenCheck(w, event) ==
    LET type == StripSentBit(event.response_type)
        size_changed == (event.width # w.width) \/ (event.height # w.height)
    IN  CASE type = XCB_CLIENT_MESSAGE -> [w EXCEPT !.is_closed = 1]
          [] type = XCB_CONFIGURE_NOTIFY ->
                IF size_changed
                THEN [w EXCEPT !.width = event.width, !.height = event.height]
                ELSE w
          [] OTHER -> w

\* HandleEvent with is_closed assigned from the comparison on every client message
HandleEvent_ClosedAssigned(w, event) ==
    LET type == StripSentBit(event.response_type)
        size_changed == (event.width # w.width) \/ (event.height # w.height)
    IN  CASE type = XCB_CLIENT_MESSAGE ->
                [w EXCEPT !.is_closed =
                    IF event.data32_0 = w.wm_delete_window THEN 1 ELSE 0]
          [] type = XCB_CONFIGURE_NOTIFY ->
                IF size_changed
                THEN [w EXCEPT !.width = event.width, !.height = event.height]
                ELSE w
          [] OTHER -> w

\* HandleEvent switching on response_type without masking the sent-event bit
HandleEvent_NoMask(w, event) ==
    LET type == event.response_type
        size_changed == (event.width # w.width) \/ (event.height # w.height)
    IN  CASE type = XCB_CLIENT_MESSAGE ->
                IF event.data32_0 = w.wm_delete_window
                THEN [w EXCEPT !.is_closed = 1]
                ELSE w
          [] type = XCB_CONFIGURE_NOTIFY ->
                IF size_changed
                THEN [w EXCEPT !.width = event.width, !.height = event.height]
                ELSE w
          [] OTHER -> w

\* the body of the while loop of window_process_events, for one event
HandleEvent(w, event) ==
    LET type == StripSentBit(event.response_type)
        size_changed == (event.width # w.width) \/ (event.height # w.height)
    IN  CASE type = XCB_CLIENT_MESSAGE ->
                IF event.data32_0 = w.wm_delete_window
                THEN [w EXCEPT !.is_closed = 1]
                ELSE w
          [] type = XCB_CONFIGURE_NOTIFY ->
                IF size_changed
                THEN [w EXCEPT !.width = event.width, !.height = event.height]
                ELSE w
          [] OTHER -> w

window_is_exists(w) == w.is_closed = 0

\* WindowCreated with the stored size initialised to the requested 640x480
WindowCreated_RequestedSize(block, conn, id, atom) ==
    [block EXCEPT !.connection = conn, !.is_closed = 0, !.width = 640,
                  !.height = 480, !.window_id = id, !.wm_delete_window = atom]

\* the fields window_create assigns in a freshly allocated game_window_t
WindowCreated(block, conn, id, atom) ==
    [block EXCEPT !.connection = conn, !.is_closed = 0, !.width = 0,
                  !.height = 0, !.window_id = id, !.wm_delete_window = atom]

\* ClampImageCount without the upper clamp
ClampImageCount_NoUpper(requested, minImageCount, maxImageCount) ==
    IF requested < minImageCount THEN minImageCount ELSE requested

\* the image-count clamp of create_swapchain
ClampImageCount(requested, minImageCount, maxImageCount) ==
    IF requested < minImageCount THEN minImageCount
    ELSE IF requested > maxImageCount THEN maxImageCount
    ELSE requested

\* ScanPresentModes leaving the loop on IMMEDIATE as it does on MAILBOX
ScanPresentModes_BreakOnImmediate(modes, i, cur) ==
    LET hits == {j \in i..Len(modes) :
                    modes[j] \in {VK_PRESENT_MODE_MAILBOX_KHR,
                                  VK_PRESENT_MODE_IMMEDIATE_KHR}}
    IN  IF hits = {} THEN cur
        ELSE modes[CHOOSE j \in hits : \A k \in hits : j <= k]

\* the present-mode scan of create_swapchain, from index i with mode cur selected
RECURSIVE ScanPresentModes(_, _, _)
ScanPresentModes(modes, i, cur) ==
    IF i > Len(modes) THEN cur
    ELSE IF modes[i] = VK_PRESENT_MODE_MAILBOX_KHR THEN VK_PRESENT_MODE_MAILBOX_KHR
    ELSE IF modes[i] = VK_PRESENT_MODE_IMMEDIATE_KHR
         THEN ScanPresentModes(modes, i + 1, VK_PRESENT_MODE_IMMEDIATE_KHR)
         ELSE ScanPresentModes(modes, i + 1, cur)

\* physicalDevices[0] after an enumeration that reported count devices
FirstPhysicalDevice(count) ==
    IF count > 0 THEN {"physicalDevice0"} ELSE {VK_NULL_HANDLE, "indeterminate"}

\* if (result): a VkResult other than VK_SUCCESS (0) is true in C
Nonzero(r) == r # VK_SUCCESS

\* EnumerationFailed treating VK_INCOMPLETE as a failure
EnumerationFailed_Strict(r) == r # VK_SUCCESS

\* create_device's test of the enumeration result
EnumerationFailed(r) == r # VK_SUCCESS /\ r # VK_INCOMPLETE

\* QueryFailed tolerating VK_INCOMPLETE as create_device does
QueryFailed_ToleratesIncomplete(r) == r # VK_SUCCESS /\ r # VK_INCOMPLETE

\* create_swapchain's test of the result of a query
QueryFailed(r) == r # VK_SUCCESS

\* initial values of create_swapchain's locals
SurfaceCapabilitiesInit == [minImageCount |-> 0, maxImageCount |-> 0]
\* SwapchainCreateInfoInit with IMMEDIATE as the initial present mode
SwapchainCreateInfoInit_ImmediateDefault ==
    [minImageCount |-> 2, presentMode |-> VK_PRESENT_MODE_IMMEDIATE_KHR]
SwapchainCreateInfoInit ==
    [minImageCount |-> 2, presentMode |-> VK_PRESENT_MODE_FIFO_KHR]

(* ---------------------------- environment ----------------------------- *)

\* contents of a block returned by malloc
MallocBlocks ==
    [connection : {NULL}, wm_delete_window : {0}, window_id : {0},
     is_closed : {0, 1}, width : {0, 640}, height : {0, 480}]

\* the block main_window points to before window_create has run: none
NoWindow ==
    [connection |-> NULL, wm_delete_window |-> 0, window_id |-> 0,
     is_closed |-> 0, width |-> 0, height |-> 0]

ClientMessage(atom) ==
    [response_type |-> XCB_CLIENT_MESSAGE + SentEventBit, data32_0 |-> atom,
     width |-> 0, height |-> 0]
ConfigureNotify(w, h) ==
    [response_type |-> XCB_CONFIGURE_NOTIFY, data32_0 |-> 0, width |-> w, height |-> h]
OtherEvent ==
    [response_type |-> XCB_MAP_NOTIFY, data32_0 |-> 0, width |-> 0, height |-> 0]

\* events the server delivers
Events ==
    {ClientMessage(WM_DELETE_WINDOW), ClientMessage(WM_TAKE_FOCUS), OtherEvent}
    \cup {ConfigureNotify(s[1], s[2]) : s \in {<<640, 480>>, <<800, 480>>, <<640, 600>>}}

\* results the driver returns from each call
InstanceResults == {VK_SUCCESS, VK_ERROR_INITIALIZATION_FAILED}
EnumerateResults ==
    {VK_SUCCESS, VK_INCOMPLETE, VK_ERROR_INITIALIZATION_FAILED, VK_ERROR_OUT_OF_HOST_MEMORY}
CreateDeviceResults ==
    {VK_SUCCESS, VK_ERROR_INITIALIZATION_FAILED, VK_ERROR_OUT_OF_HOST_MEMORY}
CreateSurfaceResults == {VK_SUCCESS, VK_ERROR_OUT_OF_HOST_MEMORY}
CapabilityResults == {VK_SUCCESS, VK_ERROR_SURFACE_LOST_KHR, VK_ERROR_OUT_OF_HOST_MEMORY}
PresentModeResults ==
    {VK_SUCCESS, VK_INCOMPLETE, VK_ERROR_SURFACE_LOST_KHR, VK_ERROR_OUT_OF_HOST_MEMORY}
CreateSwapchainResults ==
    {VK_SUCCESS, VK_ERROR_INITIALIZATION_FAILED, VK_ERROR_SURFACE_LOST_KHR}

\* device counts an enumeration reports: VK_INCOMPLETE fills the array
EnumeratedCounts(r) ==
    IF r = VK_INCOMPLETE THEN {MaxEnumerated} ELSE 0..MaxEnumerated

\* events the server delivers for the window: none of the window's own when
\* xcb_create_window failed, only events the switch has no case for
DeliverableEvents(native) == IF native = "created" THEN Events ELSE {OtherEvent}

\* surface capabilities a driver reports: minImageCount >= 1, and maxImageCount
\* either 0 (no limit) or at least minImageCount
Capabilities ==
    {c \in [minImageCount : 1..MaxImageCount, maxImageCount : 0..MaxImageCount] :
        c.maxImageCount = 0 \/ c.minImageCount <= c.maxImageCount}

\* the sequences over S of length up to n
RECURSIVE SeqsUpTo(_, _)
SeqsUpTo(S, n) ==
    IF n = 0 THEN {<<>>}
    ELSE LET shorter == SeqsUpTo(S, n - 1)
         IN  shorter \cup {Append(s, x) : s \in {t \in shorter : Len(t) = n - 1}, x \in S}
\* present-mode lists a driver reports: the supported modes, each listed once
PresentModeLists ==
    {s \in SeqsUpTo(PresentModes, MaxPresentModes) :
        \A i, j \in 1..Len(s) : s[i] = s[j] => i = j}

(* ------------------------------- Init --------------------------------- *)

Init ==
    /\ pc = "xcb_connect"
    /\ error = EXIT_SUCCESS
    /\ result = VK_SUCCESS
    /\ connection = NULL
    /\ main_window = NULL
    /\ window = NoWindow
    /\ vk = VK_NULL_HANDLE
    /\ physicalDevice = VK_NULL_HANDLE
    /\ device = VK_NULL_HANDLE
    /\ queue = VK_NULL_HANDLE
    /\ surface = VK_NULL_HANDLE
    /\ swapchain = VK_NULL_HANDLE
    /\ physicalDeviceCount = 0
    /\ SurfaceCapabilities = SurfaceCapabilitiesInit
    /\ presentModes = <<>>
    /\ SwapchainCreateInfo = SwapchainCreateInfoInit
    /\ eventQueue = <<>>
    /\ arrivals = 0
    /\ handled = <<>>
    /\ stderrLines = 0
    /\ failed = "none"
    /\ live = {}
    /\ acquired = <<>>
    /\ released = <<>>
    /\ destroyCalls = <<>>
    /\ nativeWindow = "none"
    /\ driverResult = VK_SUCCESS
    /\ drainLimit = 0

(* ------------------------ main: the bootstrap ------------------------- *)

\* Fail without the assignment error = EXIT_FAILURE
Fail_ErrorUnset(step, lines) ==
    /\ stderrLines' = stderrLines + lines
    /\ error' = error
    /\ failed' = step
    /\ pc' = "out"

\* Fail returning from main at once instead of goto out
Fail_Returns(step, lines) ==
    /\ stderrLines' = stderrLines + lines
    /\ error' = EXIT_FAILURE
    /\ failed' = step
    /\ pc' = "done"

\* what main does when a step failed: n diagnostic lines were printed, goto out
Fail(step, lines) ==
    /\ stderrLines' = stderrLines + lines
    /\ error' = EXIT_FAILURE
    /\ failed' = step
    /\ pc' = "out"

Acquire(resource) ==
    /\ live' = live \cup {resource}
    /\ acquired' = Append(acquired, resource)

\* connection = xcb_connect (NULL, NULL); if (connection == NULL) ...
XcbConnect ==
    /\ pc = "xcb_connect"
    /\ \/ /\ connection' = "connection"
          /\ Acquire("connection")
          /\ pc' = "window_create"
          /\ UNCHANGED <<error, stderrLines, failed>>
       \/ /\ connection' = NULL
          /\ Fail("connection", 1)
          /\ UNCHANGED <<live, acquired>>
    /\ UNCHANGED <<result, main_window, window, vk, physicalDevice, device, queue,
                   surface, swapchain, deviceLocals, observed, swapchainLocals, server,
                   teardownLog>>

\* main_window = window_create (connection, "Vulkan Window", 640, 480); ...
WindowCreate ==
    /\ pc = "window_create"
    /\ \/ \E block \in MallocBlocks, created \in BOOLEAN :
             /\ main_window' = "window"
             /\ window' = WindowCreated(block, connection, "window_id", WM_DELETE_WINDOW)
             /\ nativeWindow' = IF created THEN "created" ELSE "failed"
             /\ Acquire("window")
             /\ pc' = "vkCreateInstance"
             /\ UNCHANGED <<error, stderrLines, failed>>
       \/ /\ main_window' = NULL
          /\ Fail("window", 1)
          /\ UNCHANGED <<window, nativeWindow, live, acquired>>
    /\ UNCHANGED <<result, connection, vk, physicalDevice, device, queue, surface,
                   swapchain, deviceLocals, driverResult, drainLimit, swapchainLocals,
                   server, teardownLog>>

\* if (vkCreateInstance (&instanceCreateInfo, NULL, &vk)) ...
VkCreateInstance ==
    /\ pc = "vkCreateInstance"
    /\ \E r \in InstanceResults :
          /\ driverResult' = r
          /\ IF Nonzero(r)
             THEN /\ Fail("instance", 1)
                  /\ UNCHANGED <<vk, live, acquired>>
             ELSE /\ vk' = "instance"
                  /\ Acquire("instance")
                  /\ pc' = "create_device"
                  /\ UNCHANGED <<error, stderrLines, failed>>
    /\ UNCHANGED <<result, connection, main_window, window, physicalDevice, device,
                   queue, surface, swapchain, deviceLocals, nativeWindow, drainLimit,
                   swapchainLocals, server, teardownLog>>

\* create_device, up to and including vkEnumeratePhysicalDevices
CreateDeviceEnumerate ==
    /\ pc = "create_device"
    /\ \E r \in EnumerateResults :
          /\ driverResult' = r
          /\ IF EnumerationFailed(r)
             THEN /\ result' = r
                  /\ Fail("device", 1)
                  /\ UNCHANGED physicalDeviceCount
             ELSE /\ \E n \in EnumeratedCounts(r) : physicalDeviceCount' = n
                  /\ pc' = "create_device_create"
                  /\ UNCHANGED <<result, error, stderrLines, failed>>
    /\ UNCHANGED <<handles, nativeWindow, drainLimit, swapchainLocals, server, live,
                   acquired, teardownLog>>

\* create_device, from the choice of the physical device to its return
CreateDeviceCreate ==
    /\ pc = "create_device_create"
    /\ \E pd \in FirstPhysicalDevice(physicalDeviceCount), r \in CreateDeviceResults :
          /\ physicalDevice' = pd
          /\ driverResult' = r
          /\ result' = r
          /\ IF Nonzero(r)
             THEN /\ Fail("device", 1)
                  /\ UNCHANGED <<device, live, acquired>>
             ELSE /\ device' = "device"
                  /\ Acquire("device")
                  /\ pc' = "create_surface"
                  /\ UNCHANGED <<error, stderrLines, failed>>
    /\ physicalDeviceCount' = 0
    /\ UNCHANGED <<connection, main_window, window, vk, queue, surface, swapchain,
                   nativeWindow, drainLimit, swapchainLocals, server, teardownLog>>

\* if ((result = create_surface (connection, window_get_native (main_window), vk, &surface)))
CreateSurface ==
    /\ pc = "create_surface"
    /\ \E r \in CreateSurfaceResults :
          /\ driverResult' = r
          /\ result' = r
          /\ IF Nonzero(r)
             THEN /\ Fail("surface", 1)
                  /\ UNCHANGED <<surface, live, acquired>>
             ELSE /\ surface' = "surface"
                  /\ Acquire("surface")
                  /\ pc' = "vkGetDeviceQueue"
                  /\ UNCHANGED <<error, stderrLines, failed>>
    /\ UNCHANGED <<connection, main_window, window, vk, physicalDevice, device, queue,
                   swapchain, deviceLocals, nativeWindow, drainLimit, swapchainLocals,
                   server, teardownLog>>

\* vkGetDeviceQueue (device, 0, 0, &queue);
VkGetDeviceQueue ==
    /\ pc = "vkGetDeviceQueue"
    /\ queue' = "queue"
    /\ pc' = "create_swapchain"
    /\ UNCHANGED <<error, result, connection, main_window, window, vk, physicalDevice,
                   device, surface, swapchain, deviceLocals, observed, swapchainLocals, server,
                   stderrLines, failed, live, acquired, teardownLog>>

\* create_swapchain, through the capability query and the image-count clamp
CreateSwapchainCapabilities ==
    /\ pc = "create_swapchain"
    /\ \E r \in CapabilityResults :
          /\ driverResult' = r
          /\ IF QueryFailed(r)
             THEN /\ result' = r
                  /\ Fail("swapchain", 2)
                  /\ UNCHANGED <<SurfaceCapabilities, SwapchainCreateInfo>>
             ELSE /\ \E caps \in Capabilities :
                        /\ SurfaceCapabilities' = caps
                        /\ SwapchainCreateInfo' =
                               [SwapchainCreateInfo EXCEPT !.minImageCount =
                                   ClampImageCount(SwapchainCreateInfo.minImageCount,
                                                   caps.minImageCount, caps.maxImageCount)]
                  /\ pc' = "create_swapchain_modes"
                  /\ UNCHANGED <<result, error, stderrLines, failed>>
    /\ UNCHANGED <<handles, deviceLocals, nativeWindow, drainLimit, presentModes, server,
                   live, acquired, teardownLog>>

\* create_swapchain, through the present-mode query and the selection scan
CreateSwapchainPresentModes ==
    /\ pc = "create_swapchain_modes"
    /\ \E r \in PresentModeResults :
          /\ driverResult' = r
          /\ IF QueryFailed(r)
             THEN /\ result' = r
                  /\ Fail("swapchain", 2)
                  /\ presentModes' = <<>>
                  /\ SurfaceCapabilities' = SurfaceCapabilitiesInit
                  /\ SwapchainCreateInfo' = SwapchainCreateInfoInit
             ELSE /\ \E modes \in PresentModeLists :
                        /\ presentModes' = modes
                        /\ SwapchainCreateInfo' =
                               [SwapchainCreateInfo EXCEPT !.presentMode =
                                   ScanPresentModes(modes, 1, SwapchainCreateInfo.presentMode)]
                  /\ pc' = "create_swapchain_create"
                  /\ UNCHANGED <<result, error, stderrLines, failed, SurfaceCapabilities>>
    /\ UNCHANGED <<handles, deviceLocals, nativeWindow, drainLimit, server, live,
                   acquired, teardownLog>>

\* create_swapchain, vkCreateSwapchainKHR and the return to main
CreateSwapchainCreate ==
    /\ pc = "create_swapchain_create"
    /\ \E r \in CreateSwapchainResults :
          /\ driverResult' = r
          /\ result' = r
          /\ IF Nonzero(r)
             THEN /\ Fail("swapchain", 1)
                  /\ UNCHANGED <<swapchain, live, acquired>>
             ELSE /\ swapchain' = "swapchain"
                  /\ Acquire("swapchain")
                  /\ pc' = "loop"
                  /\ UNCHANGED <<error, stderrLines, failed>>
    /\ presentModes' = <<>>
    /\ SurfaceCapabilities' = SurfaceCapabilitiesInit
    /\ SwapchainCreateInfo' = SwapchainCreateInfoInit
    /\ UNCHANGED <<connection, main_window, window, vk, physicalDevice, device, queue,
                   surface, deviceLocals, nativeWindow, drainLimit, server, teardownLog>>

(* ------------------------ main: the event loop ------------------------ *)

\* the loop continuing while events are still queued, whatever the flag says
LoopTest_UntilQueueEmpty ==
    /\ pc = "loop"
    /\ IF window_is_exists(window) \/ eventQueue # <<>>
       THEN /\ pc' = "window_process_events"
            /\ drainLimit' = Len(handled) + Len(eventQueue)
       ELSE /\ pc' = "out"
            /\ UNCHANGED drainLimit
    /\ UNCHANGED <<error, result, handles, deviceLocals, nativeWindow, driverResult,
                   swapchainLocals, server, stderrLines, failed, live, acquired,
                   teardownLog>>

\* while (window_is_exists (main_window)): enter window_process_events or leave
LoopTest ==
    /\ pc = "loop"
    /\ IF window_is_exists(window)
       THEN /\ pc' = "window_process_events"
            /\ drainLimit' = Len(handled) + Len(eventQueue)
       ELSE /\ pc' = "out"
            /\ UNCHANGED drainLimit
    /\ UNCHANGED <<error, result, handles, deviceLocals, nativeWindow, driverResult,
                   swapchainLocals, server, stderrLines, failed, live, acquired,
                   teardownLog>>

\* one evaluation of xcb_poll_for_event in window_process_events, and the loop body
PollForEvent ==
    /\ pc = "window_process_events"
    /\ IF eventQueue = <<>>
       THEN /\ pc' = "loop"
            /\ drainLimit' = 0
            /\ UNCHANGED <<window, eventQueue, handled>>
       ELSE /\ window' = HandleEvent(window, Head(eventQueue))
            /\ eventQueue' = Tail(eventQueue)
            /\ handled' = Append(handled, Head(eventQueue))
            /\ pc' = "window_process_events"
            /\ UNCHANGED drainLimit
    /\ UNCHANGED <<error, result, connection, main_window, vk, physicalDevice, device,
                   queue, surface, swapchain, deviceLocals, nativeWindow, driverResult,
                   swapchainLocals, arrivals, stderrLines, failed, live, acquired,
                   teardownLog>>

\* the X server queues an event for the mapped window
EventArrives ==
    /\ "window" \in live
    /\ Len(eventQueue) < MaxQueue
    /\ arrivals < MaxArrivals
    /\ \E e \in DeliverableEvents(nativeWindow) : eventQueue' = Append(eventQueue, e)
    /\ arrivals' = arrivals + 1
    /\ UNCHANGED <<pc, handled, error, result, handles, deviceLocals, observed, swapchainLocals,
                   stderrLines, failed, live, acquired, teardownLog>>

(* ------------------------- main: the teardown ------------------------- *)

\* a release call: it reaches the environment, and releases a non-null handle
Release(call, handle, resource) ==
    /\ destroyCalls' = Append(destroyCalls, <<call, handle>>)
    /\ IF handle # VK_NULL_HANDLE
       THEN /\ released' = Append(released, resource)
            /\ live' = live \ {resource}
       ELSE UNCHANGED <<released, live>>

\* the first two teardown calls in the opposite order: surface, then swapchain
DestroySwapchain_AfterSurface ==
    /\ pc = "out"
    /\ destroyCalls' = destroyCalls \o <<<<"vkDestroySurfaceKHR", surface>>,
                                          <<"vkDestroySwapchainKHR", swapchain>>>>
    /\ released' = released
                    \o (IF surface # VK_NULL_HANDLE THEN <<"surface">> ELSE <<>>)
                    \o (IF swapchain # VK_NULL_HANDLE THEN <<"swapchain">> ELSE <<>>)
    /\ live' = live \ {"surface", "swapchain"}
    /\ pc' = "out_device"
    /\ UNCHANGED <<error, result, handles, deviceLocals, observed, swapchainLocals, server,
                   stderrLines, failed, acquired>>

\* the teardown starting with vkDestroyDevice instead of vkDestroySwapchainKHR
DestroySwapchain_DestroysDevice ==
    /\ pc = "out"
    /\ destroyCalls' = Append(destroyCalls, <<"vkDestroyDevice", device>>)
    /\ IF device # VK_NULL_HANDLE
       THEN /\ released' = Append(released, "device")
            /\ live' = live \ {"device"}
       ELSE UNCHANGED <<released, live>>
    /\ pc' = "out_surface"
    /\ UNCHANGED <<error, result, handles, deviceLocals, observed, swapchainLocals, server,
                   stderrLines, failed, acquired>>

\* vkDestroySwapchainKHR (device, swapchain, NULL);
DestroySwapchain ==
    /\ pc = "out"
    /\ Release("vkDestroySwapchainKHR", swapchain, "swapchain")
    /\ pc' = "out_surface"
    /\ UNCHANGED <<error, result, handles, deviceLocals, observed, swapchainLocals, server,
                   stderrLines, failed, acquired>>

\* vkDestroySurfaceKHR (vk, surface, NULL);
DestroySurface ==
    /\ pc = "out_surface"
    /\ Release("vkDestroySurfaceKHR", surface, "surface")
    /\ pc' = "out_device"
    /\ UNCHANGED <<error, result, handles, deviceLocals, observed, swapchainLocals, server,
                   stderrLines, failed, acquired>>

\* vkDestroyDevice (device, NULL);
DestroyDevice ==
    /\ pc = "out_device"
    /\ Release("vkDestroyDevice", device, "device")
    /\ pc' = "out_instance"
    /\ UNCHANGED <<error, result, handles, deviceLocals, observed, swapchainLocals, server,
                   stderrLines, failed, acquired>>

\* teardown without the call of vkDestroyInstance
DestroyInstance_Missing ==
    /\ pc = "out_instance"
    /\ pc' = "out_window"
    /\ UNCHANGED <<error, result, handles, deviceLocals, observed, swapchainLocals, server,
                   stderrLines, failed, live, acquired, teardownLog>>

\* vkDestroyInstance (vk, NULL);
DestroyInstance ==
    /\ pc = "out_instance"
    /\ Release("vkDestroyInstance", vk, "instance")
    /\ pc' = "out_window"
    /\ UNCHANGED <<error, result, handles, deviceLocals, observed, swapchainLocals, server,
                   stderrLines, failed, acquired>>

\* window_destroy (main_window): xcb_destroy_window and free, unless NULL
WindowDestroy ==
    /\ pc = "out_window"
    /\ IF main_window # NULL
       THEN Release("xcb_destroy_window", main_window, "window")
       ELSE UNCHANGED <<destroyCalls, released, live>>
    /\ pc' = "out_disconnect"
    /\ UNCHANGED <<error, result, handles, deviceLocals, observed, swapchainLocals, server,
                   stderrLines, failed, acquired>>

\* xcb_disconnect (connection); return error;
XcbDisconnect ==
    /\ pc = "out_disconnect"
    /\ Release("xcb_disconnect", connection, "connection")
    /\ pc' = "done"
    /\ UNCHANGED <<error, result, handles, deviceLocals, observed, swapchainLocals, server,
                   stderrLines, failed, acquired>>

Next ==
    \/ XcbConnect
    \/ WindowCreate
    \/ VkCreateInstance
    \/ CreateDeviceEnumerate
    \/ CreateDeviceCreate
    \/ CreateSurface
    \/ VkGetDeviceQueue
    \/ CreateSwapchainCapabilities
    \/ CreateSwapchainPresentModes
    \/ CreateSwapchainCreate
    \/ LoopTest
    \/ PollForEvent
    \/ EventArrives
    \/ DestroySwapchain
    \/ DestroySurface
    \/ DestroyDevice
    \/ DestroyInstance
    \/ WindowDestroy
    \/ XcbDisconnect

Spec == Init /\ [][Next]_vars

\* the steps of main, the program's only thread: every action but the server's
MainStep ==
    \/ XcbConnect
    \/ WindowCreate
    \/ VkCreateInstance
    \/ CreateDeviceEnumerate
    \/ CreateDeviceCreate
    \/ CreateSurface
    \/ VkGetDeviceQueue
    \/ CreateSwapchainCapabilities
    \/ CreateSwapchainPresentModes
    \/ CreateSwapchainCreate
    \/ LoopTest
    \/ PollForEvent
    \/ DestroySwapchain
    \/ DestroySurface
    \/ DestroyDevice
    \/ DestroyInstance
    \/ WindowDestroy
    \/ XcbDisconnect

\* main keeps running: none of its calls blocks (xcb_poll_for_event does not
\* wait), so a step of main that stays possible is eventually taken. The server
\* is under no obligation to deliver events.
LiveSpec == Init /\ [][Next]_vars /\ WF_vars(MainStep)

(* ------------------------------ claims -------------------------------- *)

\* the order in which main acquires its resources
BootstrapOrder == <<"connection", "window", "instance", "device", "surface", "swapchain">>

Range(s) == {s[i] : i \in 1..Len(s)}
Reverse(s) == [i \in 1..Len(s) |-> s[Len(s) + 1 - i]]
IndexOf(s, x) == CHOOSE i \in 1..Len(s) : s[i] = x
\* the resources acquired before the given step of BootstrapOrder
AcquiredBefore(step) == SubSeq(BootstrapOrder, 1, IndexOf(BootstrapOrder, step) - 1)
IsCloseRequest(e) ==
    StripSentBit(e.response_type) = XCB_CLIENT_MESSAGE /\ e.data32_0 = WM_DELETE_WINDOW
IsConfigure(e) == StripSentBit(e.response_type) = XCB_CONFIGURE_NOTIFY
InCreateSwapchainAfterClamp == pc \in {"create_swapchain_modes", "create_swapchain_create"}

\* C1: when every bootstrap step succeeded and the event loop exited, main has
\* released swapchain, surface, device, instance, window, connection in that
\* order, the exact reverse of the order in which it acquired them.
C1_TeardownReversesAcquisition ==
    (pc = "done" /\ failed = "none") =>
        /\ acquired = BootstrapOrder
        /\ released = <<"swapchain", "surface", "device", "instance", "window", "connection">>
        /\ released = Reverse(acquired)

C1_Witness ==
    pc = "done" /\ failed = "none" /\ Len(released) = 6 /\ ~window_is_exists(window)

\* C2: whichever bootstrap step fails, at exit the resources released are
\* exactly those acquired before the failing step, each once, and nothing
\* acquired is still live.
C2_FailureReleasesExactlyAcquired ==
    (pc = "done" /\ failed # "none") =>
        /\ acquired = AcquiredBefore(failed)
        /\ Range(released) = Range(acquired)
        /\ Len(released) = Len(acquired)
        /\ live = {}

C2_Witness ==
    pc = "done" /\ failed = "surface" /\ Range(released) = {"connection", "window", "instance", "device"}

\* C3: if create_device fails, teardown makes no release call for the
\* swapchain, and no release call at all is made with a null handle.
C3_NoReleaseCallOnNullHandle ==
    failed = "device" =>
        \A i \in 1..Len(destroyCalls) :
            /\ destroyCalls[i][1] # "vkDestroySwapchainKHR"
            /\ destroyCalls[i][2] # VK_NULL_HANDLE

\* C4: with maxImageCount > 0 and minImageCount <= maxImageCount, the image
\* count in the swapchain descriptor lies in [minImageCount, maxImageCount],
\* and it is 2 whenever 2 lies in that range.
C4_ImageCountInRange ==
    (/\ InCreateSwapchainAfterClamp
     /\ SurfaceCapabilities.maxImageCount > 0
     /\ SurfaceCapabilities.minImageCount <= SurfaceCapabilities.maxImageCount) =>
        /\ SurfaceCapabilities.minImageCount <= SwapchainCreateInfo.minImageCount
        /\ SwapchainCreateInfo.minImageCount <= SurfaceCapabilities.maxImageCount
        /\ (SurfaceCapabilities.minImageCount <= 2 /\ 2 <= SurfaceCapabilities.maxImageCount
                => SwapchainCreateInfo.minImageCount = 2)

C4_Witness ==
    /\ pc = "create_swapchain_create"
    /\ SurfaceCapabilities = [minImageCount |-> 1, maxImageCount |-> 1]
    /\ SwapchainCreateInfo.minImageCount = 1

\* C5: with maxImageCount = 0 only the lower clamp applies: the image count in
\* the swapchain descriptor is max(2, minImageCount), never 0.
C5_UnboundedMaxKeepsLowerClamp ==
    (InCreateSwapchainAfterClamp /\ SurfaceCapabilities.maxImageCount = 0) =>
        /\ SwapchainCreateInfo.minImageCount =
               (IF SurfaceCapabilities.minImageCount > 2
                THEN SurfaceCapabilities.minImageCount ELSE 2)
        /\ SwapchainCreateInfo.minImageCount # 0

C8_ConfigureUpdatesSizeOnce ==
    [][(handled' # handled /\ IsConfigure(Head(eventQueue))) =>
          LET e == Head(eventQueue)
          IN  IF e.width = window.width /\ e.height = window.height
              THEN window' = window
              ELSE /\ window' = [window EXCEPT !.width = e.width, !.height = e.height]
                   /\ HandleEvent(window', e) = window']_vars

\* two configure notifications in a row were handled, the second differing
\* from the first in height only
C8_Witness ==
    \E i \in 1..(Len(handled) - 1) :
        /\ handled[i] = ConfigureNotify(640, 480)
        /\ handled[i + 1] = ConfigureNotify(640, 600)
        /\ i + 1 = Len(handled)
        /\ window.width = 640 /\ window.height = 600

C10_ExitStatus ==
    pc = "done" =>
        /\ (error = EXIT_SUCCESS) <=>
              (failed = "none" /\ acquired = BootstrapOrder /\ ~window_is_exists(window))
        /\ (failed # "none") => (error = EXIT_FAILURE)

C10_Witness ==
    pc = "done" /\ failed = "instance" /\ error = EXIT_FAILURE

\* C11: when the server fails to create the native window, window_create
\* returns NULL and main reports the window failure and goes to the teardown.
C11_NativeFailureIsReported ==
    nativeWindow = "failed" => (main_window = NULL /\ failed = "window")

\* C12: once create_device has returned, physicalDevice and device are both
\* null or both non-null.
C12_DevicesSetTogether ==
    pc \notin {"xcb_connect", "window_create", "vkCreateInstance", "create_device",
               "create_device_create"} =>
        ((physicalDevice = VK_NULL_HANDLE) <=> (device = VK_NULL_HANDLE))

\* C13: vkCreateDevice is called only when the enumeration reported at least
\* one physical device, so only with a handle the enumeration returned.
C13_CreateOnlyForEnumeratedDevice ==
    pc = "create_device_create" => physicalDeviceCount > 0

\* C14: a failed bootstrap has written exactly one line to standard error.
C14_OneDiagnosticLinePerFailure ==
    failed # "none" => stderrLines = 1

\* C15: within one call of window_process_events the events handled never
\* exceed those that were queued when the call began.
C15_DrainBoundedByQueueAtCall ==
    pc = "window_process_events" => Len(handled) <= drainLimit

\* C16: in create_device VK_INCOMPLETE from the enumeration is tolerated and
\* the logical device is created next; any other non-success enumeration
\* result, and any failure of vkCreateDevice, comes back to main as the very
\* code the driver returned, with no device created.
C16_CreateDeviceResults ==
    [][/\ (pc = "create_device" /\ pc' # pc) =>
              IF driverResult' \in {VK_SUCCESS, VK_INCOMPLETE}
              THEN pc' = "create_device_create" /\ failed' = "none" /\ UNCHANGED stderrLines
              ELSE /\ pc' = "out" /\ failed' = "device"
                   /\ result' = driverResult'
                   /\ device' = VK_NULL_HANDLE /\ "device" \notin live'
       /\ (pc = "create_device_create" /\ pc' # pc) =>
              IF driverResult' = VK_SUCCESS
              THEN pc' = "create_surface" /\ device' # VK_NULL_HANDLE
              ELSE /\ pc' = "out" /\ failed' = "device"
                   /\ result' = driverResult'
                   /\ device' = VK_NULL_HANDLE /\ "device" \notin live']_vars

\* the enumeration returned VK_INCOMPLETE and create_device went on
C16_Witness ==
    pc = "create_device_create" /\ driverResult = VK_INCOMPLETE /\ failed = "none"

\* C17: a live swapchain implies a live device and surface; a live surface
\* implies a live instance, window and connection; a live device implies a
\* live instance; a live window implies an open connection.
C17_OwnershipChain ==
    /\ "swapchain" \in live => {"device", "surface"} \subseteq live
    /\ "surface" \in live => {"instance", "window", "connection"} \subseteq live
    /\ "device" \in live => "instance" \in live
    /\ "window" \in live => "connection" \in live

\* the teardown of a complete bootstrap, after the swapchain and the surface
\* were destroyed
C17_Witness ==
    pc = "out_device" /\ live = {"connection", "window", "instance", "device"}

\* the stage of main a position belongs to, in the order of the source
Stage(p) ==
    CASE p = "xcb_connect" -> 1
      [] p = "window_create" -> 2
      [] p = "vkCreateInstance" -> 3
      [] p \in {"create_device", "create_device_create"} -> 4
      [] p = "create_surface" -> 5
      [] p = "vkGetDeviceQueue" -> 6
      [] p \in {"create_swapchain", "create_swapchain_modes", "create_swapchain_create"} -> 7
      [] p \in {"loop", "window_process_events"} -> 8
      [] p \in {"out", "out_surface", "out_device", "out_instance", "out_window",
                "out_disconnect"} -> 9
      [] p = "done" -> 10

\* the resources main holds when it is at the given stage of the bootstrap
HeldAtStage(n) ==
    CASE n <= 4 -> SubSeq(BootstrapOrder, 1, n - 1)
      [] n = 5 -> SubSeq(BootstrapOrder, 1, 4)
      [] n \in {6, 7} -> SubSeq(BootstrapOrder, 1, 5)
      [] OTHER -> BootstrapOrder

\* C18: main goes through connect, window, instance, create_device,
\* create_surface, queue, create_swapchain, event loop, teardown in that order;
\* it is at a step only when every earlier step succeeded; and it leaves a
\* step only for the next one or for the teardown, which it runs to the end
\* before it returns.
C18_BootstrapOrder ==
    [][/\ Stage(pc) <= 8 => (failed = "none" /\ acquired = HeldAtStage(Stage(pc)))
       /\ pc' # pc =>
             \/ Stage(pc') = Stage(pc) /\ Stage(pc) # 9
             \/ Stage(pc') = Stage(pc) + 1 /\ (Stage(pc) <= 7 => failed' = "none")
             \/ Stage(pc) <= 8 /\ pc' = "out"
             \/ Stage(pc) = 9 /\ Stage(pc') = 9 /\ pc # "out_disconnect"
       /\ pc' = "done" => (pc \in {"out_disconnect", "done"} /\ Len(destroyCalls') >= 5)]_vars

\* a failure in the middle of the bootstrap has led to the end of the teardown
C18_Witness ==
    pc = "done" /\ failed = "surface" /\ Len(destroyCalls) = 6

\* C19: in create_swapchain a failed capability query or present-mode query
\* ends the function at once, and so does a failed vkCreateSwapchainKHR; main
\* gets the very code the driver returned and the swapchain handle stays null.
C19_CreateSwapchainFailsFast ==
    [][(Stage(pc) = 7 /\ pc' # pc) =>
          IF driverResult' # VK_SUCCESS
          THEN /\ pc' = "out" /\ failed' = "swapchain"
               /\ result' = driverResult'
               /\ swapchain' = VK_NULL_HANDLE /\ "swapchain" \notin live'
          ELSE pc' = CASE pc = "create_swapchain" -> "create_swapchain_modes"
                       [] pc = "create_swapchain_modes" -> "create_swapchain_create"
                       [] OTHER -> "loop"]_vars

\* the present-mode query failed and its code is main's result
C19_Witness ==
    /\ pc = "out" /\ failed = "swapchain"
    /\ driverResult = VK_INCOMPLETE /\ result = VK_INCOMPLETE
    /\ swapchain = VK_NULL_HANDLE

\* C20: handling an event changes is_closed only if it is a client message
\* carrying wm_delete_window, and changes width or height only if it is a
\* configure notification; nothing else of the window changes.
C20_EventFrame ==
    [][handled' # handled =>
          LET e == Head(eventQueue)
          IN  /\ ~IsCloseRequest(e) => window'.is_closed = window.is_closed
              /\ ~IsConfigure(e) =>
                    (window'.width = window.width /\ window'.height = window.height)
              /\ window'.connection = window.connection
              /\ window'.window_id = window.window_id
              /\ window'.wm_delete_window = window.wm_delete_window]_vars

\* the configure notifications window_process_events has handled, in order
ConfiguresHandled == SelectSeq(handled, IsConfigure)

\* C21: from window_create on, whatever events were pumped, the stored
\* (width, height) is the size of the configure notification handled last, or
\* (0, 0) when none was handled yet; it is never the requested creation size
\* unless a notification reported that size.
C21_StoredSizeIsLastConfigure ==
    main_window # NULL =>
        IF ConfiguresHandled = <<>>
        THEN window.width = 0 /\ window.height = 0
        ELSE LET last == ConfiguresHandled[Len(ConfiguresHandled)]
             IN  window.width = last.width /\ window.height = last.height

\* two different configure notifications were handled and then another event,
\* and the stored size is the second notification's
C21_Witness ==
    /\ main_window # NULL
    /\ Len(handled) = 3
    /\ handled[1] = ConfigureNotify(800, 480)
    /\ handled[2] = ConfigureNotify(640, 600)
    /\ ~IsConfigure(handled[3])
    /\ window.width = 640 /\ window.height = 600


CloseRequestQueued == \E i \in 1..Len(eventQueue) : IsCloseRequest(eventQueue[i])
CloseRequestHandled == \E i \in 1..Len(handled) : IsCloseRequest(handled[i])
InEventLoop == pc \in {"loop", "window_process_events"}

\* C22: after a bootstrap in which every step succeeded, main is past the
\* event loop only if a close request carrying wm_delete_window was handled;
\* and, the server delivering finitely many events and main being scheduled
\* fairly, a close request queued while main is in the loop (or waiting there
\* from the bootstrap) leads to main leaving the loop, finishing the teardown
\* and returning 0.
C22_CloseRequestLeadsToExit ==
    /\ []((failed = "none" /\ Stage(pc) > 8) => CloseRequestHandled)
    /\ (InEventLoop /\ CloseRequestQueued) ~> (pc = "done" /\ error = EXIT_SUCCESS)

\* main returned 0 after handling a client message with another token and
\* then the close request
C22_Witness ==
    /\ pc = "done" /\ error = EXIT_SUCCESS /\ failed = "none"
    /\ \E i \in 1..(Len(handled) - 1) :
          /\ handled[i] = ClientMessage(WM_TAKE_FOCUS)
          /\ handled[i + 1] = ClientMessage(WM_DELETE_WINDOW)


\* C23: the present mode create_swapchain hands to vkCreateSwapchainKHR is
\* FIFO or one of the modes the query listed; FIFO is handed over whether or
\* not the list contains it.
C23_PresentModeIsFifoOrListed ==
    pc = "create_swapchain_create" =>
        \/ SwapchainCreateInfo.presentMode = VK_PRESENT_MODE_FIFO_KHR
        \/ SwapchainCreateInfo.presentMode \in Range(presentModes)

\* the query listed modes, FIFO not among them, and FIFO is handed over
C23_Witness ==
    /\ pc = "create_swapchain_create"
    /\ presentModes # <<>>
    /\ VK_PRESENT_MODE_FIFO_KHR \notin Range(presentModes)
    /\ SwapchainCreateInfo.presentMode = VK_PRESENT_MODE_FIFO_KHR


\* a client message with another token was handled and the window is alive
C20_Witness ==
    /\ Len(handled) >= 2
    /\ handled[Len(handled)] = ClientMessage(WM_TAKE_FOCUS)
    /\ IsConfigure(handled[Len(handled) - 1])
    /\ window_is_exists(window)
    /\ window.width # 0

TypeOK ==
    /\ error \in {EXIT_SUCCESS, EXIT_FAILURE}
    /\ window.is_closed \in {0, 1}
    /\ live \subseteq {"connection", "window", "instance", "device", "surface", "swapchain"}
    /\ Len(eventQueue) <= MaxQueue
====
